---- MODULE Spec2Model ----
(***************************************************************************)
(* Model of src/index.tsx: the innovation dashboard.  run() awaits one     *)
(* generateContent call, parses the response text, stores it in            *)
(* allInnovations, builds the category pills, renders the grid and the     *)
(* spotlight and registers the search handler; afterwards pill clicks,     *)
(* search-input events and card clicks are dispatched one at a time.       *)
(*                                                                         *)
(* Strings are sequences of UTF-16 code units.  A JSON object is a record  *)
(* whose DOMAIN is the set of properties it has, so a missing property is  *)
(* a missing field; the JSON value null is the one-field record JsonNull.  *)
(* Cards, the spotlight and the filter result refer to catalog entries by  *)
(* their index in allInnovations (JavaScript object identity).             *)
(***************************************************************************)
EXTENDS Integers, Sequences, FiniteSets, TLC

VARIABLES pc, response, allInnovations, loaderVisible, errorVisible, errorText,
          pills, pillListeners, inputListener, active, searchValue,
          dashboard, spotlight, noResultsVisible, noResultsText,
          lastCall, clicked

vars == <<pc, response, allInnovations, loaderVisible, errorVisible, errorText,
          pills, pillListeners, inputListener, active, searchValue,
          dashboard, spotlight, noResultsVisible, noResultsText,
          lastCall, clicked>>

-----------------------------------------------------------------------------
(* Bounds *)

\* longest array the model lets the service return
MaxLen == 2

-----------------------------------------------------------------------------
(* String primitives of the JavaScript runtime used by the code *)

\* the literal 'all'
ALL == <<97, 108, 108>>

\* the fixed text of the error indicator (its first word stands for it)
ErrorMessage == <<87, 101>>

WhiteSpace == {9, 10, 11, 12, 13, 32, 160}

\* String.prototype.toLowerCase on the Latin capitals
toLowerCase(s) == [i \in 1..Len(s) |-> IF s[i] \in 65..90 THEN s[i] + 32 ELSE s[i]]

\* String.prototype.trim
trim(s) ==
    LET keep == {i \in 1..Len(s) : s[i] \notin WhiteSpace}
    IN  IF keep = {} THEN <<>>
        ELSE LET lo == CHOOSE i \in keep : \A j \in keep : i <= j
                 hi == CHOOSE i \in keep : \A j \in keep : j <= i
             IN  SubSeq(s, lo, hi)

\* String.prototype.includes
includes(s, t) ==
    \E i \in 0..(Len(s) - Len(t)) : SubSeq(s, i + 1, i + Len(t)) = t

\* encodeURIComponent throws URIError on an unpaired surrogate
IsHigh(c) == c \in 55296..56319
IsLow(c) == c \in 56320..57343
encodeThrows(s) ==
    \E i \in 1..Len(s) :
        \/ IsHigh(s[i]) /\ (i = Len(s) \/ ~IsLow(s[i + 1]))
        \/ IsLow(s[i]) /\ (i = 1 \/ ~IsHigh(s[i - 1]))

\* the default comparison of Array.prototype.sort: by UTF-16 code units
LexLess(a, b) ==
    \E k \in 1..Len(b) :
        /\ k <= Len(a) + 1
        /\ SubSeq(a, 1, k - 1) = SubSeq(b, 1, k - 1)
        /\ (k = Len(a) + 1 \/ a[k] < b[k])

RECURSIVE Insert(_, _)
Insert(x, s) ==
    IF s = <<>> THEN <<x>>
    ELSE IF LexLess(x, Head(s)) THEN <<x>> \o s
    ELSE <<Head(s)>> \o Insert(x, Tail(s))

\* Array.prototype.sort() with no comparator
RECURSIVE sort(_)
sort(s) == IF s = <<>> THEN <<>> ELSE Insert(Head(s), sort(Tail(s)))

\* Array.from(new Set(s)): first occurrences, in insertion order
RECURSIVE fromSet(_)
fromSet(s) ==
    IF s = <<>> THEN <<>>
    ELSE LET front == SubSeq(s, 1, Len(s) - 1)
             last == s[Len(s)]
             rest == fromSet(front)
         IN  IF \E i \in 1..Len(front) : front[i] = last THEN rest
             ELSE Append(rest, last)

-----------------------------------------------------------------------------
(* JSON values the service can answer with *)

Fields == {"name", "description", "category", "imageQuery", "learnMoreUrl",
           "significance"}

JsonNull == [null |-> TRUE]
IsNull(e) == "null" \in DOMAIN e
Has(e, f) == f \in DOMAIN e

Innovation(name, description, category) ==
    [name |-> name, description |-> description, category |-> category,
     imageQuery |-> <<113>>, learnMoreUrl |-> <<117>>, significance |-> <<115>>]

Without(r, f) == [g \in (DOMAIN r) \ {f} |-> r[g]]

\* "Ab" / "x" / "M"
RecAb == Innovation(<<65, 98>>, <<120>>, <<77>>)
\* "b" / "a" / "E"
RecB == Innovation(<<98>>, <<97>>, <<69>>)
\* "a" / "" / "" : the category is the empty string
RecEmptyCat == Innovation(<<97>>, <<>>, <<>>)
\* "B" / "b" / "all" : the category is literally "all"
RecAllCat == Innovation(<<66>>, <<98>>, ALL)
\* objects the response schema forbids but JSON.parse accepts
RecNoSignificance == Without(RecAb, "significance")
RecNoName == Without(RecB, "name")
\* imageQuery is a lone high surrogate ("\ud800")
RecBadImage == [RecB EXCEPT !.imageQuery = <<55296>>]

Elements == {RecAb, RecB, RecEmptyCat, RecAllCat, RecNoSignificance, RecNoName,
             RecBadImage, JsonNull}

RECURSIVE SeqsUpTo(_, _)
SeqsUpTo(S, n) ==
    IF n = 0 THEN {<<>>}
    ELSE LET shorter == SeqsUpTo(S, n - 1)
         IN  shorter \cup {Append(s, x) : s \in {t \in shorter : Len(t) = n - 1}, x \in S}

\* response.text: either not JSON at all, or the JSON text of an array
Texts == {[json |-> FALSE]} \cup {[json |-> TRUE, value |-> a] : a \in SeqsUpTo(Elements, MaxLen)}

\* what the user can type into the search field: "", "a", "A ", "b", "z"
Queries == {<<>>, <<97>>, <<65, 32>>, <<98>>, <<122>>}

-----------------------------------------------------------------------------
(* The page before the script runs (index.html) *)

\* the one pill of the markup: data-category="all"
HtmlPills == <<ALL>>
\* the pills carrying class "active" in the markup
HtmlActive == {1}

Init ==
    /\ pc = "awaiting"
    /\ response = [kind |-> "pending"]
    /\ allInnovations = <<>>
    /\ loaderVisible = TRUE
    /\ errorVisible = FALSE
    /\ errorText = <<>>
    /\ pills = HtmlPills
    /\ pillListeners = FALSE
    /\ inputListener = FALSE
    /\ active = HtmlActive
    /\ searchValue = <<>>
    /\ dashboard = <<>>
    /\ spotlight = 0
    /\ noResultsVisible = FALSE
    /\ noResultsText = <<>>
    /\ lastCall = [op |-> "none"]
    /\ clicked = 0

-----------------------------------------------------------------------------
(* Pure parts of the functions *)

Min(S) == CHOOSE i \in S : \A j \in S : i <= j

Indices(catalog) == [i \in 1..Len(catalog) |-> i]

\* JSON.parse(response.text) throws SyntaxError on text that is not JSON
JsonParseThrows(text) == ~text.json
JsonParse(text) == text.value

\* a variant that reads innovations[0].category and so throws on an empty array
setupFiltersThrows_onEmpty(innovations) ==
    \/ Len(innovations) = 0
    \/ \E i \in 1..Len(innovations) : IsNull(innovations[i])

\* setupFilters, line 82: i.category on null throws TypeError
setupFiltersThrows(innovations) ==
    \E i \in 1..Len(innovations) : IsNull(innovations[i])

\* a variant that forgets .sort()
categories_unsorted(innovations) ==
    fromSet([i \in 1..Len(innovations) |-> innovations[i].category])

\* setupFilters, line 82
categories(innovations) ==
    sort(fromSet([i \in 1..Len(innovations) |-> innovations[i].category]))

\* filterInnovations, line 115; <<>> stands for null, <<c>> for the string c
activeCategoryOf(category) == IF category = ALL THEN <<>> ELSE <<category>>

\* !activeCategory: null and the empty string are falsy
Not(activeCategory) == activeCategory = <<>> \/ activeCategory[1] = <<>>

\* filterInnovations, lines 118-119: reading .toLowerCase of undefined throws
matchThrows(innovation, normalizedQuery) ==
    \/ IsNull(innovation)
    \/ ~Has(innovation, "name")
    \/ /\ ~includes(toLowerCase(innovation.name), normalizedQuery)
       /\ ~Has(innovation, "description")

\* filterInnovations, lines 118-121: the callback given to filter
matches(innovation, normalizedQuery, activeCategory) ==
    LET matchesQuery ==
            \/ includes(toLowerCase(innovation.name), normalizedQuery)
            \/ includes(toLowerCase(innovation.description), normalizedQuery)
        matchesCategory ==
            \/ Not(activeCategory)
            \/ innovation.category = activeCategory[1]
    IN  matchesQuery /\ matchesCategory

filterThrows(catalog, query) ==
    \E i \in 1..Len(catalog) : matchThrows(catalog[i], trim(toLowerCase(query)))

Reverse(s) == [i \in 1..Len(s) |-> s[Len(s) + 1 - i]]

\* a variant that hands the kept entries over newest first
filtered_reversed(catalog, query, category) ==
    LET normalizedQuery == trim(toLowerCase(query))
        activeCategory == activeCategoryOf(category)
        Keep(i) == matches(catalog[i], normalizedQuery, activeCategory)
    IN  Reverse(SelectSeq(Indices(catalog), Keep))

\* filterInnovations, lines 114-122: the entries kept, by index, in array order
filtered(catalog, query, category) ==
    LET normalizedQuery == trim(toLowerCase(query))
        activeCategory == activeCategoryOf(category)
        Keep(i) == matches(catalog[i], normalizedQuery, activeCategory)
    IN  SelectSeq(Indices(catalog), Keep)

\* createCard, line 38: encodeURIComponent(innovation.imageQuery)
createCardThrows(innovation) ==
    \/ IsNull(innovation)
    \/ Has(innovation, "imageQuery") /\ encodeThrows(innovation.imageQuery)

renderGridThrows(catalog, cards) ==
    \E k \in 1..Len(cards) : createCardThrows(catalog[cards[k]])

\* renderGrid: the cards appended before createCard throws, all of them if none does
rendered(catalog, cards) ==
    LET bad == {k \in 1..Len(cards) : createCardThrows(catalog[cards[k]])}
    IN  IF bad = {} THEN cards ELSE SubSeq(cards, 1, Min(bad) - 1)

\* run, lines 200-201: activeCat?.dataset.category || 'all'
activeCatCategory ==
    IF active = {} THEN ALL
    ELSE IF pills[Min(active)] = <<>> THEN ALL
    ELSE pills[Min(active)]

-----------------------------------------------------------------------------
(* Steps *)

\* run, lines 212-219
catch ==
    /\ pc' = "failed"
    /\ loaderVisible' = FALSE
    /\ errorVisible' = TRUE
    /\ errorText' = ErrorMessage

\* a variant that never writes the spotlight container
updateSpotlight_unwired(innovation) == UNCHANGED spotlight

\* updateSpotlight, lines 61-76
updateSpotlight(innovation) == spotlight' = innovation

\* setupFilters, lines 85-107
setupFilters(innovations) ==
    /\ pills' = SelectSeq(pills, LAMBDA c : c = ALL) \o categories(innovations)
    /\ pillListeners' = TRUE

\* renderGrid, lines 135-140
renderGrid(catalog, cards) == dashboard' = rendered(catalog, cards)

\* a variant that filters the catalog in place (allInnovations = allInnovations.filter(...))
filterInnovations_inplace(query, category) ==
    LET result == filtered(allInnovations, query, category)
    IN  IF filterThrows(allInnovations, query)
        THEN /\ UNCHANGED <<allInnovations, dashboard, noResultsVisible, noResultsText>>
             /\ lastCall' = [op |-> "filterInnovations", query |-> query,
                             category |-> category, returned |-> FALSE]
        ELSE /\ allInnovations' = [k \in 1..Len(result) |-> allInnovations[result[k]]]
             /\ renderGrid(allInnovations, result)
             /\ IF renderGridThrows(allInnovations, result)
                THEN /\ UNCHANGED <<noResultsVisible, noResultsText>>
                     /\ lastCall' = [op |-> "filterInnovations", query |-> query,
                                     category |-> category, returned |-> FALSE]
                ELSE /\ noResultsVisible' = (Len(result) = 0)
                     /\ noResultsText' = <<query, category>>
                     /\ lastCall' = [op |-> "filterInnovations", query |-> query,
                                     category |-> category, returned |-> TRUE]

\* filterInnovations, lines 113-130
filterInnovations(query, category) ==
    LET result == filtered(allInnovations, query, category)
    IN  /\ UNCHANGED allInnovations
        /\ IF filterThrows(allInnovations, query)
           THEN /\ UNCHANGED <<dashboard, noResultsVisible, noResultsText>>
                /\ lastCall' = [op |-> "filterInnovations", query |-> query,
                                category |-> category, returned |-> FALSE]
           ELSE /\ renderGrid(allInnovations, result)
                /\ IF renderGridThrows(allInnovations, result)
                   THEN /\ UNCHANGED <<noResultsVisible, noResultsText>>
                        /\ lastCall' = [op |-> "filterInnovations", query |-> query,
                                        category |-> category, returned |-> FALSE]
                   ELSE /\ noResultsVisible' = (Len(result) = 0)
                        /\ noResultsText' = <<query, category>>
                        /\ lastCall' = [op |-> "filterInnovations", query |-> query,
                                        category |-> category, returned |-> TRUE]

\* run, lines 170-178 and 212-219: the awaited call rejects
GenerateContentRejects ==
    /\ pc = "awaiting"
    /\ response' = [kind |-> "rejected"]
    /\ catch
    /\ lastCall' = [op |-> "run"]
    /\ UNCHANGED <<allInnovations, pills, pillListeners, inputListener, active,
                   searchValue, dashboard, spotlight, noResultsVisible,
                   noResultsText, clicked>>

\* run, lines 180-219: what follows the await when the response text is `text`
runAfterAwait(text) ==
    /\ response' = [kind |-> "resolved", text |-> text]
    /\ lastCall' = [op |-> "run"]
    /\ UNCHANGED <<active, searchValue, noResultsVisible, noResultsText, clicked>>
    /\ IF JsonParseThrows(text)
       THEN /\ catch
            /\ UNCHANGED <<allInnovations, pills, pillListeners, inputListener,
                           dashboard, spotlight>>
       ELSE LET data == JsonParse(text)
            IN  /\ allInnovations' = data
                /\ IF setupFiltersThrows(data)
                   THEN /\ catch
                        /\ UNCHANGED <<pills, pillListeners, inputListener,
                                       dashboard, spotlight>>
                   ELSE /\ setupFilters(data)
                        /\ renderGrid(data, Indices(data))
                        /\ IF renderGridThrows(data, Indices(data))
                           THEN /\ catch
                                /\ UNCHANGED <<inputListener, spotlight>>
                           ELSE /\ IF Len(data) > 0
                                   THEN updateSpotlight(1)
                                   ELSE UNCHANGED spotlight
                                /\ inputListener' = TRUE
                                /\ loaderVisible' = FALSE
                                /\ pc' = "done"
                                /\ UNCHANGED <<errorVisible, errorText>>

\* run, lines 170-178: the awaited call resolves
GenerateContentResolves ==
    /\ pc = "awaiting"
    /\ \E text \in Texts : runAfterAwait(text)

\* setupFilters, lines 93-97 and 103-107: click on pill k
ClickPill(k) ==
    /\ pillListeners
    /\ k \in 1..Len(pills)
    /\ active' = {k}
    /\ filterInnovations(searchValue, pills[k])
    /\ UNCHANGED <<pc, response, loaderVisible, errorVisible, errorText, pills,
                   pillListeners, inputListener, searchValue, spotlight, clicked>>

\* run, lines 199-202: input event leaving `value` in the search field
InputEvent(value) ==
    /\ inputListener
    /\ searchValue' = value
    /\ filterInnovations(value, activeCatCategory)
    /\ UNCHANGED <<pc, response, loaderVisible, errorVisible, errorText, pills,
                   pillListeners, inputListener, active, spotlight, clicked>>

\* createCard, line 54: click on the card at position pos of the grid
ClickCard(pos) ==
    /\ pos \in 1..Len(dashboard)
    /\ updateSpotlight(dashboard[pos])
    /\ clicked' = dashboard[pos]
    /\ lastCall' = [op |-> "updateSpotlight", innovation |-> dashboard[pos]]
    /\ UNCHANGED <<pc, response, allInnovations, loaderVisible, errorVisible,
                   errorText, pills, pillListeners, inputListener, active,
                   searchValue, dashboard, noResultsVisible, noResultsText>>

Next ==
    \/ GenerateContentRejects
    \/ GenerateContentResolves
    \/ \E k \in 1..(MaxLen + 1) : ClickPill(k)
    \/ \E value \in Queries : InputEvent(value)
    \/ \E pos \in 1..MaxLen : ClickCard(pos)

Spec == Init /\ [][Next]_vars

-----------------------------------------------------------------------------
(* Vocabulary of the properties *)

Succeeded == pc = "done"
Failed == pc = "failed"

\* the query match and the category match as the design states them
QueryMatch(r, query) ==
    LET q == trim(toLowerCase(query))
    IN  \/ Has(r, "name") /\ includes(toLowerCase(r.name), q)
        \/ Has(r, "description") /\ includes(toLowerCase(r.description), q)

CategoryMatch(r, category) == category = ALL \/ r.category = category

\* the catalog entries, by index and in catalog order, that match both
Expected(query, category) ==
    SelectSeq(Indices(allInnovations),
              LAMBDA i : QueryMatch(allInnovations[i], query)
                         /\ CategoryMatch(allInnovations[i], category))

Complete(e) == ~IsNull(e) /\ \A f \in Fields : Has(e, f)

EmptyArrayResponse ==
    /\ response.kind = "resolved"
    /\ response.text.json
    /\ response.text.value = <<>>

StrictlySorted(s) == \A i, j \in 1..Len(s) : i < j => LexLess(s[i], s[j])

CategorySet == {allInnovations[i].category : i \in 1..Len(allInnovations)}

-----------------------------------------------------------------------------
(* Properties *)

\* C1: whenever run() ends in its catch block, the loader is hidden, the error
\* indicator shows the fixed message, the catalog is still empty and the grid,
\* the generated pills and the spotlight are all unrendered.
C1_FailureLeavesNothing ==
    Failed =>
        /\ ~loaderVisible
        /\ errorVisible
        /\ errorText = ErrorMessage
        /\ allInnovations = <<>>
        /\ dashboard = <<>>
        /\ pills = HtmlPills
        /\ spotlight = 0

\* C2: a call filterInnovations(query, category) that renders leaves in the grid
\* exactly the catalog entries whose name or description contains the
\* normalized query and whose category equals `category`, the category
\* constraint being dropped for the literal "all" only.
C2_FilterRendersExactMatches ==
    (lastCall.op = "filterInnovations" /\ lastCall.returned) =>
        dashboard = Expected(lastCall.query, lastCall.category)

\* C3: in every state after a successful acquisition the "no results"
\* indicator is visible exactly when the grid is empty.
C3_NoResultsIffGridEmpty ==
    Succeeded => (noResultsVisible <=> dashboard = <<>>)

\* C4: every entry of the catalog is an object with all six fields.
C4_CatalogRecordsComplete ==
    \A i \in 1..Len(allInnovations) : Complete(allInnovations[i])

\* C5 (as stated): a response that parses to an empty array ends run() in the
\* error state.
C5_EmptyResultIsFailure ==
    EmptyArrayResponse => (Failed /\ errorVisible)

\* C5 (amended): a response that parses to an empty array ends run() in the
\* success state: loader hidden, error indicator hidden, catalog and grid
\* empty, only the markup's pill, handlers registered.
C5_EmptyResultIsSuccess ==
    EmptyArrayResponse =>
        /\ Succeeded
        /\ ~errorVisible
        /\ ~loaderVisible
        /\ allInnovations = <<>>
        /\ dashboard = <<>>
        /\ pills = HtmlPills
        /\ inputListener

C5_Witness == EmptyArrayResponse /\ Succeeded

\* C6: after a successful acquisition of a non-empty array and before any user
\* event, the pills are "all" followed by the distinct categories of the
\* catalog in ascending order without duplicates, the grid holds one card per
\* catalog entry in catalog order, and the spotlight shows the first entry.
C6_InitialRender ==
    (Succeeded /\ Len(allInnovations) > 0 /\ lastCall.op = "run") =>
        /\ Head(pills) = ALL
        /\ StrictlySorted(Tail(pills))
        /\ {pills[k] : k \in 2..Len(pills)} = CategorySet
        /\ dashboard = Indices(allInnovations)
        /\ spotlight = 1

\* two entries arriving in descending category order ("M" before "E")
C6_Witness ==
    /\ Succeeded
    /\ lastCall.op = "run"
    /\ Len(allInnovations) = 2
    /\ LexLess(allInnovations[2].category, allInnovations[1].category)
    /\ Len(pills) = 3

\* C7: the catalog is empty at startup and only the acquisition step (taken
\* while run() awaits the response) ever changes it.
C7_CatalogWrittenOnce ==
    /\ allInnovations = <<>>
    /\ [][allInnovations' # allInnovations => pc = "awaiting"]_vars

\* a non-empty catalog after a search, a pill click and a card click
C7_Witness ==
    /\ Succeeded
    /\ Len(allInnovations) = 2
    /\ searchValue # <<>>
    /\ active # HtmlActive
    /\ clicked # 0
    /\ Len(dashboard) = 1

\* C8: the grid is a subsequence of the catalog: its cards refer to catalog
\* entries at strictly increasing positions.
C8_GridIsSubsequence ==
    /\ \A k \in 1..Len(dashboard) : dashboard[k] \in 1..Len(allInnovations)
    /\ \A j, k \in 1..Len(dashboard) : j < k => dashboard[j] < dashboard[k]

\* a non-trivial search that two entries survive
C8_Witness ==
    /\ lastCall.op = "filterInnovations"
    /\ lastCall.returned
    /\ lastCall.query # <<>>
    /\ Len(dashboard) = 2

\* C9 (as stated): once acquisition has succeeded the spotlight shows a record.
C9_SpotlightNeverEmpty ==
    Succeeded => spotlight # 0

\* C9 (amended): once acquisition has succeeded with a non-empty catalog the
\* spotlight shows the first entry until a card is clicked and thereafter the
\* entry of the most recently clicked card; with an empty catalog it stays
\* empty.
C9_SpotlightTracksSelection ==
    Succeeded =>
        spotlight = IF Len(allInnovations) = 0 THEN 0
                    ELSE IF clicked = 0 THEN 1
                    ELSE clicked

\* the second card was clicked and a search followed
C9_Witness ==
    /\ Succeeded
    /\ clicked = 2
    /\ spotlight = 2
    /\ lastCall.op = "filterInnovations"

\* C10: after a successful acquisition exactly one pill is active and the grid
\* is the filter result for the current search text and the category of the
\* active pill.
C10_GridFollowsSelection ==
    Succeeded =>
        /\ Cardinality(active) = 1
        /\ dashboard = Expected(searchValue, pills[Min(active)])

====
